---- MODULE Spec2Model ----
(***************************************************************************)
(* A model of equalizer.py: the rebalancing planner of k8s-equalizer.      *)
(*                                                                         *)
(* main() takes one snapshot of the schedulable nodes and of the placed    *)
(* pods, warns about pods placed outside the node pool, computes a target  *)
(* count per node (compute_targets), builds the eviction plan              *)
(* (plan_evictions) and, unless --dry-run was given, walks the plan and    *)
(* calls the eviction API once per entry (execute_plan).                   *)
(*                                                                         *)
(* Encoding of the Python values:                                          *)
(*   - Optional[x] is a sequence of length 0 (None) or 1 (<<x>>);          *)
(*   - a node name is an integer, the integer order being the ascending    *)
(*     order of the names (list_schedulable_nodes returns sorted names);   *)
(*   - a pod is a record with the fields the code reads; its name is       *)
(*     unique within the (single) namespace the pods are listed from;      *)
(*   - a float is a record [inf, val]: inf = 1 is +infinity, inf = -1 is   *)
(*     -infinity, inf = 0 is the finite number val;                        *)
(*   - a datetime is [wall, tzinfo]: the wall clock reading and an         *)
(*     Optional UTC offset (None: a naive datetime);                       *)
(*   - annotations is a function from the annotation keys present to their *)
(*     values; `annotations or {}` makes None and {} the same value, and   *)
(*     `owner_references or []` makes None and [] the same value.          *)
(***************************************************************************)
EXTENDS Integers, Sequences, FiniteSets

VARIABLES
    nodes,          \* main: nodes, the sorted names of the node pool
    pods,           \* main: pods, the placed pods that were listed
    dry_run,        \* args.dry_run
    max_evictions,  \* args.max_evictions (Optional[int])
    pc,             \* position in main / execute_plan
    targets,        \* main: targets (node -> int), <<>> before it is computed
    candidates,     \* plan_evictions: the sorted candidates of each overloaded node
    plan,           \* main: plan, a sequence of <<node, pod>>
    warnings,       \* everything passed to _print_warning, in order
    errors,         \* everything passed to _print_error, in order
    idx,            \* execute_plan: index of the plan entry the loop is at
    performed,      \* execute_plan: performed
    calls,          \* the calls received by create_namespaced_pod_eviction
    returned        \* execute_plan's return value (Optional[int])

vars == <<nodes, pods, dry_run, max_evictions, pc, targets, candidates, plan,
          warnings, errors, idx, performed, calls, returned>>

-----------------------------------------------------------------------------
(* Bounds of the model. *)

MaxNodes == 3
MaxPods == 4
MaxOrderPods == 3
MaxPile == 3
MaxPileNodes == 5
MaxPlan == 3
MaxCap == 3

-----------------------------------------------------------------------------
(* Python values. *)

None == <<>>

Some(x) == <<x>>

MIRROR_ANNOTATION == "kubernetes.io/config.mirror"

SAFE_TO_EVICT_ANNOTATION == "cluster-autoscaler.kubernetes.io/safe-to-evict"

\* dict.get(key): the value, or None when the key is absent.
DictGet(d, key) == IF key \in DOMAIN d THEN Some(d[key]) ELSE None

\* Truthiness of the result of annotations.get(key): None and "" are falsy.
Truthy(opt) == opt # None /\ opt[1] # ""

Finite(v) == [inf |-> 0, val |-> v]

PosInf == [inf |-> 1, val |-> 0]

\* Unary minus on a float.
FloatNeg(x) == [inf |-> 0 - x.inf, val |-> 0 - x.val]

FloatLess(x, y) ==
    \/ x.inf < y.inf
    \/ x.inf = 0 /\ y.inf = 0 /\ x.val < y.val

\* datetime.timestamp() of an aware datetime: the instant, in the model's
\* time unit (wall clock reading less the UTC offset).
Timestamp(dt) == dt.wall - dt.tzinfo[1]

\* start_time.replace(tzinfo=datetime.timezone.utc)
ReplaceTzUtc(dt) == [dt EXCEPT !.tzinfo = Some(0)]

\* Python's comparison of two (priority, -start_ts) tuples: k1 < k2.
TupleLess(k1, k2) ==
    \/ k1[1] < k2[1]
    \/ k1[1] = k2[1] /\ FloatLess(k1[2], k2[2])

-----------------------------------------------------------------------------
(* group_pods_by_node and the pure functions of the planner. *)

\* pods_by_node.get(node, ()): the pods of the list placed on node, in list order.
PodsOn(ps, node) == SelectSeq(ps, LAMBDA p : p.node_name = node)

\* The keys of pods_by_node.
GroupKeys(ps) == {ps[i].node_name : i \in DOMAIN ps}

_is_managed_by_daemonset(pod) ==
    \E i \in DOMAIN pod.owner_references : pod.owner_references[i] = "DaemonSet"

_is_evictable(pod) ==
    IF Truthy(DictGet(pod.annotations, MIRROR_ANNOTATION)) THEN FALSE
    ELSE IF DictGet(pod.annotations, SAFE_TO_EVICT_ANNOTATION) = Some("false") THEN FALSE
    ELSE IF _is_managed_by_daemonset(pod) THEN FALSE
    ELSE IF pod.phase \notin {"Pending", "Running"} THEN FALSE
    ELSE TRUE

\* _pod_sort_key with the start timestamp not negated: the oldest pod first.
_pod_sort_key_oldest_first(pod) ==
    LET priority == IF pod.priority # None THEN pod.priority[1] ELSE 0
        start_ts ==
            IF pod.start_time = None THEN PosInf
            ELSE LET st == pod.start_time[1]
                     aware == IF st.tzinfo = None THEN ReplaceTzUtc(st) ELSE st
                 IN  Finite(Timestamp(aware))
    IN  <<priority, start_ts>>

\* _pod_sort_key with -infinity as the start timestamp of a pod with no start time.
_pod_sort_key_unstarted_oldest(pod) ==
    LET priority == IF pod.priority # None THEN pod.priority[1] ELSE 0
        start_ts ==
            IF pod.start_time = None THEN FloatNeg(PosInf)
            ELSE LET st == pod.start_time[1]
                     aware == IF st.tzinfo = None THEN ReplaceTzUtc(st) ELSE st
                 IN  Finite(Timestamp(aware))
    IN  <<priority, FloatNeg(start_ts)>>

_pod_sort_key(pod) ==
    LET priority == IF pod.priority # None THEN pod.priority[1] ELSE 0
        start_ts ==
            IF pod.start_time = None THEN PosInf
            ELSE LET st == pod.start_time[1]
                     aware == IF st.tzinfo = None THEN ReplaceTzUtc(st) ELSE st
                 IN  Finite(Timestamp(aware))
    IN  <<priority, FloatNeg(start_ts)>>

\* RankedInsert with equal counts in reverse order (a sort that is not stable).
RECURSIVE RankedInsert_unstable(_, _, _)
RankedInsert_unstable(sorted, name, counts) ==
    IF sorted = <<>> THEN <<name>>
    ELSE IF counts[Head(sorted)] <= counts[name] THEN <<name>> \o sorted
    ELSE <<Head(sorted)>> \o RankedInsert_unstable(Tail(sorted), name, counts)

\* sorted(..., key=..., reverse=True) inserts one element: it goes before the
\* first element whose count is strictly lower, so equal counts keep their order.
RECURSIVE RankedInsert(_, _, _)
RankedInsert(sorted, name, counts) ==
    IF sorted = <<>> THEN <<name>>
    ELSE IF counts[Head(sorted)] < counts[name] THEN <<name>> \o sorted
    ELSE <<Head(sorted)>> \o RankedInsert(Tail(sorted), name, counts)

\* ranked_nodes = sorted(nodes, key=lambda name: counts[name], reverse=True)
RECURSIVE RankedNodes(_, _)
RankedNodes(ns, counts) ==
    IF ns = <<>> THEN <<>>
    ELSE RankedInsert(RankedNodes(SubSeq(ns, 1, Len(ns) - 1), counts),
                      ns[Len(ns)], counts)

\* sum(counts.values())
RECURSIVE SumCounts(_, _)
SumCounts(ns, counts) ==
    IF ns = <<>> THEN 0 ELSE counts[Head(ns)] + SumCounts(Tail(ns), counts)

\* compute_targets with the total taken over every listed pod, also those
\* placed outside the pool.
compute_targets_all_pods(ns, ps) ==
    LET counts == [n \in {ns[i] : i \in DOMAIN ns} |-> Len(PodsOn(ps, n))]
        total == Len(ps)
        per_node == total \div Len(ns)
        extra == total % Len(ns)
        ranked_nodes == RankedNodes(ns, counts)
    IN  [n \in {ns[i] : i \in DOMAIN ns} |->
            per_node + (IF \E i \in 1..extra : ranked_nodes[i] = n THEN 1 ELSE 0)]

compute_targets(ns, ps) ==
    LET counts == [n \in {ns[i] : i \in DOMAIN ns} |-> Len(PodsOn(ps, n))]
        total == SumCounts(ns, counts)
        per_node == total \div Len(ns)
        extra == total % Len(ns)
        ranked_nodes == RankedNodes(ns, counts)
    IN  [n \in {ns[i] : i \in DOMAIN ns} |->
            per_node + (IF \E i \in 1..extra : ranked_nodes[i] = n THEN 1 ELSE 0)]

\* sorted(..., key=_pod_sort_key) inserts one pod: it goes before the first pod
\* whose key is strictly greater, so equal keys keep their order.
RECURSIVE CandidateInsert(_, _)
CandidateInsert(sorted, pod) ==
    IF sorted = <<>> THEN <<pod>>
    ELSE IF TupleLess(_pod_sort_key(pod), _pod_sort_key(Head(sorted)))
         THEN <<pod>> \o sorted
    ELSE <<Head(sorted)>> \o CandidateInsert(Tail(sorted), pod)

RECURSIVE SortedByKey(_)
SortedByKey(ps) ==
    IF ps = <<>> THEN <<>>
    ELSE CandidateInsert(SortedByKey(SubSeq(ps, 1, Len(ps) - 1)), ps[Len(ps)])

\* Candidates without the evictability filter.
Candidates_unfiltered(ps, node) == SortedByKey(PodsOn(ps, node))

\* candidates = sorted([pod for pod in pods_by_node.get(node, []) if _is_evictable(pod)],
\*                     key=_pod_sort_key)
Candidates(ps, node) == SortedByKey(SelectSeq(PodsOn(ps, node), _is_evictable))

ShortageWarning(node, overload, available) ==
    [kind |-> "shortage", node |-> node, overload |-> overload,
     available |-> available, shortage |-> overload - available]

\* PlanNode that plans nothing for a node with a shortage.
PlanNode_skip_on_shortage(node, cands, overload) ==
    IF Len(cands) < overload
    THEN [entries |-> <<>>,
          warned  |-> <<ShortageWarning(node, overload, Len(cands))>>]
    ELSE [entries |-> [k \in 1..overload |-> <<node, cands[k]>>],
          warned  |-> <<>>]

\* One iteration of the loop of plan_evictions, for a node with overload > 0:
\* the entries appended to the plan and the warnings printed.
PlanNode(node, cands, overload) ==
    IF Len(cands) < overload
    THEN [entries |-> [k \in 1..Len(cands) |-> <<node, cands[k]>>],
          warned  |-> <<ShortageWarning(node, overload, Len(cands))>>]
    ELSE [entries |-> [k \in 1..overload |-> <<node, cands[k]>>],
          warned  |-> <<>>]

\* overload = len(pods_by_node.get(node, ())) - targets[node]
Overload(ps, tg, node) == Len(PodsOn(ps, node)) - tg[node]

\* plan_evictions: the loop over nodes from position i on, given the plan and
\* the warnings so far; the result holds the final plan, the warnings and the
\* candidate list computed for each overloaded node.
RECURSIVE PlanLoop(_, _, _, _, _)
PlanLoop(ns, ps, tg, i, acc) ==
    IF i > Len(ns) THEN acc
    ELSE LET node == ns[i]
             overload == Overload(ps, tg, node)
         IN  IF overload <= 0 THEN PlanLoop(ns, ps, tg, i + 1, acc)
             ELSE LET cands == Candidates(ps, node)
                      step == PlanNode(node, cands, overload)
                  IN  PlanLoop(ns, ps, tg, i + 1,
                          [plan |-> acc.plan \o step.entries,
                           warned |-> acc.warned \o step.warned,
                           cands |-> acc.cands \o <<<<node, cands>>>>])

plan_evictions(ns, ps, tg) ==
    PlanLoop(ns, ps, tg, 1, [plan |-> <<>>, warned |-> <<>>, cands |-> <<>>])

\* sorted(set): the elements of a set of node names in ascending order.
RECURSIVE SortedSet(_)
SortedSet(S) ==
    IF S = {} THEN <<>>
    ELSE LET m == CHOOSE x \in S : \A y \in S : x <= y
         IN  <<m>> \o SortedSet(S \ {m})

-----------------------------------------------------------------------------
(* The snapshots and arguments the checks draw from. *)

Pod(name, node, priority, start, ann, owners, phase) ==
    [name |-> name, node_name |-> node, priority |-> priority,
     start_time |-> start, annotations |-> ann,
     owner_references |-> owners, phase |-> phase]

\* A running pod of a ReplicaSet with no annotations, priority or start time.
PlainPod(name, node) ==
    Pod(name, node, None, None, <<>>, <<"ReplicaSet">>, "Running")

AllNodes == 1..MaxNodes

\* The node pools: every non-empty set of node names, in ascending order.
Pools == {SortedSet(S) : S \in (SUBSET AllNodes) \ {{}}}

Phases == {"Pending", "Running", "Succeeded", "Failed", "Unknown", "None"}

AnnotationValues == {"", "false", "true"}

AnnotationMaps ==
    UNION {[D -> AnnotationValues] :
             D \in SUBSET {MIRROR_ANNOTATION, SAFE_TO_EVICT_ANNOTATION}}

OwnerLists ==
    {<<>>, <<"ReplicaSet">>, <<"DaemonSet">>, <<"ReplicaSet", "DaemonSet">>}

Priorities == {None, Some(0), Some(1)}

\* None, two naive datetimes (read as UTC) and a datetime one unit east of UTC.
StartTimes ==
    {None, Some([wall |-> 1, tzinfo |-> None]), Some([wall |-> 2, tzinfo |-> None]),
     Some([wall |-> 2, tzinfo |-> Some(1)])}

\* Optional[int] values of --max-evictions (argparse type=int, default None).
Caps == {None} \cup {Some(k) : k \in (0 - 1)..MaxCap}

\* Snapshots of up to MaxPods pods spread over the nodes, each pod running
\* (evictable) or succeeded (not evictable); pods of one node are adjacent,
\* as group_pods_by_node only keeps the order within a node.
SpreadSnapshots ==
    UNION {{[i \in 1..m |-> Pod(i, f[i][1], None, None, <<>>, <<"ReplicaSet">>, f[i][2])] :
              f \in {g \in [1..m -> AllNodes \X {"Running", "Succeeded"}] :
                       \A i \in 1..(m - 1) : g[i][1] <= g[i + 1][1]}} :
           m \in 0..MaxPods}

\* Two pods on the first of two nodes, the first pod with every combination
\* of annotations, owners and phase.
MarkerSnapshots ==
    {<<Pod(1, 1, None, None, ann, owners, phase), PlainPod(2, 1)>> :
       ann \in AnnotationMaps, owners \in OwnerLists, phase \in Phases}

\* Up to MaxOrderPods evictable pods on the first of two nodes, with every
\* combination of priority and start time.
OrderSnapshots ==
    UNION {{[i \in 1..m |-> Pod(i, 1, f[i][1], f[i][2], <<>>, <<"ReplicaSet">>, "Running")] :
              f \in [1..m -> Priorities \X StartTimes]} :
           m \in 2..MaxOrderPods}

\* Pools of the first n nodes with pods piled on the first two of them, each
\* pod running (evictable) or succeeded (not evictable).
PileSnapshots ==
    UNION {{[i \in 1..(a + b) |->
                Pod(i, IF i <= a THEN 1 ELSE 2, None, None, <<>>, <<"ReplicaSet">>, f[i])] :
              f \in [1..(a + b) -> {"Running", "Succeeded"}]} :
           a \in 0..MaxPile, b \in 0..MaxPile}

PilePools == {[i \in 1..n |-> i] : n \in 2..MaxPileNodes}

\* What every run starts from, given the snapshot and the arguments.
Start(ns, ps, dry, cap, at) ==
    /\ nodes = ns
    /\ pods = ps
    /\ dry_run = dry
    /\ max_evictions = cap
    /\ pc = at
    /\ targets = <<>>
    /\ candidates = <<>>
    /\ plan = <<>>
    /\ warnings = <<>>
    /\ errors = <<>>
    /\ idx = 0
    /\ performed = 0
    /\ calls = <<>>
    /\ returned = None

-----------------------------------------------------------------------------
(* main, up to the plan. *)

UnlistedWarning(unknown) == [kind |-> "unlisted", unknown |-> unknown]

CapWarning == [kind |-> "cap"]

WarnOnUnlistedNodes ==
    /\ pc = "warn"
    /\ LET unknown == SortedSet(GroupKeys(pods) \ {nodes[i] : i \in DOMAIN nodes})
       IN  warnings' = IF unknown # <<>>
                       THEN Append(warnings, UnlistedWarning(unknown))
                       ELSE warnings
    /\ pc' = "targets"
    /\ UNCHANGED <<nodes, pods, dry_run, max_evictions, targets, candidates, plan,
                   errors, idx, performed, calls, returned>>

ComputeTargets ==
    /\ pc = "targets"
    /\ targets' = compute_targets(nodes, pods)
    /\ pc' = "plan"
    /\ UNCHANGED <<nodes, pods, dry_run, max_evictions, candidates, plan, warnings,
                   errors, idx, performed, calls, returned>>

PlanEvictions ==
    /\ pc = "plan"
    /\ LET r == plan_evictions(nodes, pods, targets)
       IN  /\ plan' = r.plan
           /\ warnings' = warnings \o r.warned
           /\ candidates' = r.cands
    /\ pc' = "planned"
    /\ UNCHANGED <<nodes, pods, dry_run, max_evictions, targets,
                   errors, idx, performed, calls, returned>>

\* main: print_plan, then `if args.dry_run: return 0`.
MainDryRunReturn ==
    /\ pc = "planned"
    /\ dry_run
    /\ pc' = "exit"
    /\ UNCHANGED <<nodes, pods, dry_run, max_evictions, targets, candidates, plan,
                   warnings, errors, idx, performed, calls, returned>>

\* main: the call of execute_plan.
MainCallExecute ==
    /\ pc = "planned"
    /\ ~dry_run
    /\ pc' = "execute"
    /\ UNCHANGED <<nodes, pods, dry_run, max_evictions, targets, candidates, plan,
                   warnings, errors, idx, performed, calls, returned>>

-----------------------------------------------------------------------------
(* execute_plan. *)

\* CapReached with > for >=.
CapReached_off_by_one(cap, done) == cap # None /\ done > cap[1]

\* max_evictions is not None and performed >= max_evictions
CapReached(cap, done) == cap # None /\ done >= cap[1]

\* `if not plan: return 0`
ExecuteEmpty ==
    /\ pc = "execute"
    /\ plan = <<>>
    /\ returned' = Some(0)
    /\ pc' = "returned"
    /\ UNCHANGED <<nodes, pods, dry_run, max_evictions, targets, candidates, plan,
                   warnings, errors, idx, performed, calls>>

\* performed = 0, and the loop starts at the first entry.
ExecuteEnter ==
    /\ pc = "execute"
    /\ plan # <<>>
    /\ performed' = 0
    /\ idx' = 1
    /\ pc' = "loop"
    /\ UNCHANGED <<nodes, pods, dry_run, max_evictions, targets, candidates, plan,
                   warnings, errors, calls, returned>>

\* The cap is reached: warn, break, return performed.
LoopCapReached ==
    /\ pc = "loop"
    /\ idx <= Len(plan)
    /\ CapReached(max_evictions, performed)
    /\ warnings' = Append(warnings, CapWarning)
    /\ returned' = Some(performed)
    /\ pc' = "returned"
    /\ UNCHANGED <<nodes, pods, dry_run, max_evictions, targets, candidates, plan,
                   errors, idx, performed, calls>>

\* LoopDryRun that counts the skipped entry as performed.
LoopDryRun_counted ==
    /\ pc = "loop"
    /\ idx <= Len(plan)
    /\ ~CapReached(max_evictions, performed)
    /\ dry_run
    /\ idx' = idx + 1
    /\ performed' = performed + 1
    /\ UNCHANGED <<nodes, pods, dry_run, max_evictions, pc, targets, candidates, plan,
                   warnings, errors, calls, returned>>

\* `if dry_run: continue`
LoopDryRun ==
    /\ pc = "loop"
    /\ idx <= Len(plan)
    /\ ~CapReached(max_evictions, performed)
    /\ dry_run
    /\ idx' = idx + 1
    /\ UNCHANGED <<nodes, pods, dry_run, max_evictions, pc, targets, candidates, plan,
                   warnings, errors, performed, calls, returned>>

\* The eviction call succeeds.
LoopEvictOk ==
    /\ pc = "loop"
    /\ idx <= Len(plan)
    /\ ~CapReached(max_evictions, performed)
    /\ ~dry_run
    /\ calls' = Append(calls, [name |-> plan[idx][2].name, result |-> "ok"])
    /\ performed' = performed + 1
    /\ idx' = idx + 1
    /\ UNCHANGED <<nodes, pods, dry_run, max_evictions, pc, targets, candidates, plan,
                   warnings, errors, returned>>

\* LoopEvictFail that gives up the loop after the failure.
LoopEvictFail_aborts ==
    /\ pc = "loop"
    /\ idx <= Len(plan)
    /\ ~CapReached(max_evictions, performed)
    /\ ~dry_run
    /\ calls' = Append(calls, [name |-> plan[idx][2].name, result |-> "ApiException"])
    /\ errors' = Append(errors, plan[idx][2].name)
    /\ returned' = Some(performed)
    /\ pc' = "returned"
    /\ UNCHANGED <<nodes, pods, dry_run, max_evictions, targets, candidates, plan,
                   warnings, idx, performed>>

\* The eviction call raises ApiException: the error is printed, the loop goes on.
LoopEvictFail ==
    /\ pc = "loop"
    /\ idx <= Len(plan)
    /\ ~CapReached(max_evictions, performed)
    /\ ~dry_run
    /\ calls' = Append(calls, [name |-> plan[idx][2].name, result |-> "ApiException"])
    /\ errors' = Append(errors, plan[idx][2].name)
    /\ idx' = idx + 1
    /\ UNCHANGED <<nodes, pods, dry_run, max_evictions, pc, targets, candidates, plan,
                   warnings, performed, returned>>

\* The plan is exhausted: return performed.
ExecuteReturn ==
    /\ pc = "loop"
    /\ idx > Len(plan)
    /\ returned' = Some(performed)
    /\ pc' = "returned"
    /\ UNCHANGED <<nodes, pods, dry_run, max_evictions, targets, candidates, plan,
                   warnings, errors, idx, performed, calls>>

\* main: the report of the count, and `return 0`.
MainReport ==
    /\ pc = "returned"
    /\ pc' = "exit"
    /\ UNCHANGED <<nodes, pods, dry_run, max_evictions, targets, candidates, plan,
                   warnings, errors, idx, performed, calls, returned>>

-----------------------------------------------------------------------------
(* Specifications. *)

\* A run of main on a snapshot, with any arguments.
InitMain ==
    \E ns \in Pools, ps \in SpreadSnapshots, dry \in BOOLEAN, cap \in Caps :
        Start(ns, ps, dry, cap, "warn")

Next ==
    \/ WarnOnUnlistedNodes
    \/ ComputeTargets
    \/ PlanEvictions
    \/ MainDryRunReturn
    \/ MainCallExecute
    \/ ExecuteEmpty
    \/ ExecuteEnter
    \/ LoopCapReached
    \/ LoopDryRun
    \/ LoopEvictOk
    \/ LoopEvictFail
    \/ ExecuteReturn
    \/ MainReport


\* main up to the plan: the inventory, compute_targets and plan_evictions.
InitPlan ==
    \/ \E ns \in Pools, ps \in SpreadSnapshots : Start(ns, ps, FALSE, None, "warn")
    \/ \E ns \in PilePools, ps \in PileSnapshots : Start(ns, ps, FALSE, None, "warn")
    \/ \E ps \in MarkerSnapshots \cup OrderSnapshots :
          Start(<<1, 2>>, ps, FALSE, None, "warn")

NextPlan ==
    \/ WarnOnUnlistedNodes
    \/ ComputeTargets
    \/ PlanEvictions

SpecPlan == InitPlan /\ [][NextPlan]_vars

\* A plan of n entries, as plan_evictions builds it for n pods too many on one node.
PlanOf(n) == [i \in 1..n |-> <<1, PlainPod(i, 1)>>]

\* execute_plan called on a plan, with any arguments.
InitExec ==
    \E n \in 0..MaxPlan, dry \in BOOLEAN, cap \in Caps :
        /\ nodes = <<1, 2>>
        /\ pods = [i \in 1..(2 * n) |-> PlainPod(i, 1)]
        /\ dry_run = dry
        /\ max_evictions = cap
        /\ pc = "execute"
        /\ targets = [node \in {1, 2} |-> n]
        /\ candidates = IF n = 0 THEN <<>> ELSE <<<<1, pods>>>>
        /\ plan = PlanOf(n)
        /\ warnings = <<>>
        /\ errors = <<>>
        /\ idx = 0
        /\ performed = 0
        /\ calls = <<>>
        /\ returned = None

NextExec ==
    \/ ExecuteEmpty
    \/ ExecuteEnter
    \/ LoopCapReached
    \/ LoopDryRun
    \/ LoopEvictOk
    \/ LoopEvictFail
    \/ ExecuteReturn

SpecExec == InitExec /\ [][NextExec]_vars

\* The program: runs of main, and calls of execute_plan with any arguments
\* (main itself never calls it with dry_run set).
Init == InitMain \/ InitExec

Spec == Init /\ [][Next]_vars

-----------------------------------------------------------------------------
(* The properties checked. *)

PoolSet == {nodes[i] : i \in DOMAIN nodes}

\* Position of a pool node in the node list.
PositionOf(n) == CHOOSE i \in DOMAIN nodes : nodes[i] = n

\* The current count of a node: the listed pods placed on it.
CountOn(n) == Cardinality({i \in DOMAIN pods : pods[i].node_name = n})

\* The pods placed on the nodes of the pool.
PoolTotal == Cardinality({i \in DOMAIN pods : pods[i].node_name \in PoolSet})

TargetsComputed == pc \in {"plan", "planned"}

TargetSum == SumCounts(nodes, targets)

Base == PoolTotal \div Len(nodes)

Extra == PoolTotal % Len(nodes)

\* The nodes ranked before n: a higher count, or the same count and an
\* earlier place in the node list.
RankedBefore(n) ==
    {m \in PoolSet : \/ CountOn(m) > CountOn(n)
                     \/ CountOn(m) = CountOn(n) /\ PositionOf(m) < PositionOf(n)}

\* C1: compute_targets gives every node of the pool a target, the targets sum
\* to the number of pods on the nodes of the pool, and the largest target
\* exceeds the smallest by at most 1.
C1_TargetsBalanced ==
    TargetsComputed =>
        /\ DOMAIN targets = PoolSet
        /\ TargetSum = PoolTotal
        /\ \A a, b \in PoolSet : targets[a] - targets[b] <= 1

C1_Witness ==
    /\ pc = "plan"
    /\ Len(nodes) >= 2
    /\ Extra > 0
    /\ PoolTotal < Len(pods)
    /\ \E a, b \in PoolSet : targets[a] = targets[b] + 1

\* C2: the nodes with target base + 1 are exactly the first `extra` nodes in
\* the ranking by descending count with ties in node-list order, every other
\* node has target base, and so no node with target base has a strictly
\* higher count than a node with target base + 1.
C2_RemainderToHighest ==
    TargetsComputed =>
        /\ \A n \in PoolSet :
              targets[n] = IF Cardinality(RankedBefore(n)) < Extra THEN Base + 1 ELSE Base
        /\ \A a, b \in PoolSet :
              targets[a] = Base /\ targets[b] = Base + 1 => CountOn(a) <= CountOn(b)

C2_Witness ==
    /\ pc = "plan"
    /\ \E a, b, c \in PoolSet :
          /\ CountOn(a) > CountOn(b)
          /\ CountOn(b) = CountOn(c)
          /\ PositionOf(b) < PositionOf(c)
          /\ PositionOf(b) < PositionOf(a)
          /\ targets[b] = Base + 1
          /\ targets[c] = Base

\* The markers the evictability rule names: the config-mirror annotation is
\* present, safe-to-evict is "false", a DaemonSet owns the pod, or the phase
\* is neither Pending nor Running.
HasMarker(pod) ==
    \/ MIRROR_ANNOTATION \in DOMAIN pod.annotations
    \/ /\ SAFE_TO_EVICT_ANNOTATION \in DOMAIN pod.annotations
       /\ pod.annotations[SAFE_TO_EVICT_ANNOTATION] = "false"
    \/ \E i \in DOMAIN pod.owner_references : pod.owner_references[i] = "DaemonSet"
    \/ pod.phase \notin {"Pending", "Running"}

\* The pods of a candidate list.
InList(cs) == {cs[i] : i \in DOMAIN cs}

\* C3: a pod of an overloaded node is kept as a candidate (the predicate
\* returned true) exactly when it has none of the markers.
C3_EvictableIffNoMarker ==
    pc = "planned" =>
        \A k \in DOMAIN candidates :
            \A i \in DOMAIN pods :
                pods[i].node_name = candidates[k][1] =>
                    (pods[i] \in InList(candidates[k][2]) <=> ~HasMarker(pods[i]))

PriorityOf(pod) == IF pod.priority = None THEN 0 ELSE pod.priority[1]

Started(pod) == pod.start_time # None

\* The instant a pod started; a naive start time is read as UTC.
StartInstant(pod) ==
    LET st == pod.start_time[1]
    IN  st.wall - (IF st.tzinfo = None THEN 0 ELSE st.tzinfo[1])

\* C4: in the candidate order of a node, of two pods that have a start time
\* the one placed first has the lower priority, or the same priority and the
\* later start, or the same priority and start and the earlier place in the
\* pod list.
C4_CandidateOrder ==
    pc = "planned" =>
        \A k \in DOMAIN candidates :
            LET cs == candidates[k][2]
            IN  \A i, j \in DOMAIN cs :
                    i < j /\ Started(cs[i]) /\ Started(cs[j]) =>
                        \/ PriorityOf(cs[i]) < PriorityOf(cs[j])
                        \/ /\ PriorityOf(cs[i]) = PriorityOf(cs[j])
                           /\ StartInstant(cs[i]) > StartInstant(cs[j])
                        \/ /\ PriorityOf(cs[i]) = PriorityOf(cs[j])
                           /\ StartInstant(cs[i]) = StartInstant(cs[j])
                           /\ cs[i].name < cs[j].name

C4_Witness ==
    /\ pc = "planned"
    /\ \E k \in DOMAIN candidates :
          LET cs == candidates[k][2]
          IN  /\ Len(cs) = 3
              /\ \A i \in DOMAIN cs : Started(cs[i])
              /\ cs[1].priority = None
              /\ cs[2].priority = Some(0)
              /\ StartInstant(cs[1]) > StartInstant(cs[2])
              /\ cs[1].start_time[1].wall <= cs[2].start_time[1].wall
              /\ PriorityOf(cs[3]) > 0
              /\ cs[3].name = 1

\* C5 as stated: among candidates of the same priority, a pod with no start
\* time comes after every pod that has one.
C5_UnstartedLast ==
    pc = "planned" =>
        \A k \in DOMAIN candidates :
            LET cs == candidates[k][2]
            IN  \A i, j \in DOMAIN cs :
                    /\ PriorityOf(cs[i]) = PriorityOf(cs[j])
                    /\ ~Started(cs[i])
                    /\ Started(cs[j])
                    => j < i

\* C5 as amended: among candidates of the same priority, a pod with no start
\* time comes before every pod that has one, and so is planned for eviction
\* whenever a same-priority pod with a start time is.
C5_UnstartedFirst ==
    pc = "planned" =>
        \A k \in DOMAIN candidates :
            LET cs == candidates[k][2]
            IN  \A i, j \in DOMAIN cs :
                    /\ PriorityOf(cs[i]) = PriorityOf(cs[j])
                    /\ ~Started(cs[i])
                    /\ Started(cs[j])
                    => /\ i < j
                       /\ (\E e \in DOMAIN plan : plan[e][2] = cs[j])
                              => (\E e \in DOMAIN plan : plan[e][2] = cs[i])

C5_Witness ==
    /\ pc = "planned"
    /\ \E k \in DOMAIN candidates :
          LET cs == candidates[k][2]
          IN  /\ Len(cs) >= 2
              /\ ~Started(cs[1])
              /\ Started(cs[2])
              /\ PriorityOf(cs[1]) = PriorityOf(cs[2])
              /\ cs[2].name < cs[1].name
              /\ plan = <<<<candidates[k][1], cs[1]>>>>

\* The entries of the plan for one node, in plan order.
PlanFor(n) == SelectSeq(plan, LAMBDA e : e[1] = n)

\* The candidate list plan_evictions computed for an overloaded node.
CandidatesOf(n) ==
    LET k == CHOOSE k \in DOMAIN candidates : candidates[k][1] = n
    IN  candidates[k][2]

\* The number of pods on a node the evictability predicate accepts.
EvictableOn(n) ==
    Cardinality({i \in DOMAIN pods : pods[i].node_name = n /\ _is_evictable(pods[i])})

Min(a, b) == IF a < b THEN a ELSE b

ShortageWarnings(n) ==
    SelectSeq(warnings, LAMBDA w : w.kind = "shortage" /\ w.node = n)

\* C6: for every pool node over its target, the plan holds exactly the first
\* min(overload, c) of its c candidates, in candidate order, and a shortage
\* warning is printed for the node exactly when c < overload; this holds for
\* every such node, also those after a node with a shortage.
C6_PlanPerNode ==
    pc = "planned" =>
        \A n \in PoolSet :
            LET overload == CountOn(n) - targets[n]
                c == EvictableOn(n)
            IN  overload > 0 =>
                    /\ Len(CandidatesOf(n)) = c
                    /\ PlanFor(n) = [k \in 1..Min(overload, c) |-> <<n, CandidatesOf(n)[k]>>]
                    /\ Len(PlanFor(n)) <= c
                    /\ IF c < overload
                       THEN ShortageWarnings(n) = <<ShortageWarning(n, overload, c)>>
                       ELSE ShortageWarnings(n) = <<>>

C6_Witness ==
    /\ pc = "planned"
    /\ \E a, b \in PoolSet :
          /\ a < b
          /\ CountOn(a) - targets[a] = 2
          /\ EvictableOn(a) = 1
          /\ Len(PlanFor(a)) = 1
          /\ ShortageWarnings(a) # <<>>
          /\ CountOn(b) - targets[b] > 0
          /\ Len(PlanFor(b)) = CountOn(b) - targets[b]

\* C10: every entry of the plan pairs a node of the pool that is over its
\* target with a listed pod placed on that node that is evictable, and no pod
\* is planned twice; so no pod outside the pool and no node at or below its
\* target is in the plan.
C10_PlanEntriesSound ==
    pc = "planned" =>
        /\ \A e \in DOMAIN plan :
              /\ plan[e][1] \in PoolSet
              /\ CountOn(plan[e][1]) > targets[plan[e][1]]
              /\ \E i \in DOMAIN pods : pods[i] = plan[e][2]
              /\ plan[e][2].node_name = plan[e][1]
              /\ _is_evictable(plan[e][2])
        /\ \A e, f \in DOMAIN plan : plan[e][2].name = plan[f][2].name => e = f

C10_Witness ==
    /\ pc = "planned"
    /\ Len(plan) >= 1
    /\ \E i \in DOMAIN pods : pods[i].node_name \notin PoolSet /\ _is_evictable(pods[i])
    /\ \E n \in PoolSet : CountOn(n) <= targets[n]
    /\ \E i \in DOMAIN pods :
          /\ ~_is_evictable(pods[i])
          /\ pods[i].node_name \in PoolSet
          /\ CountOn(pods[i].node_name) > targets[pods[i].node_name]

\* The names of the pods the eviction endpoint was called for, in call order.
CalledNames == [i \in DOMAIN calls |-> calls[i].name]

\* The names of the first k pods of the plan.
PlanNames(k) == [i \in 1..k |-> plan[i][2].name]

Succeeded == {i \in DOMAIN calls : calls[i].result = "ok"}

\* C7: with dry_run set, whatever the plan and the cap, execute_plan never
\* calls the eviction endpoint, and it returns 0.
C7_DryRunNoCalls ==
    dry_run =>
        /\ calls = <<>>
        /\ pc = "returned" => returned = Some(0)

C7_Witness ==
    /\ dry_run
    /\ pc = "returned"
    /\ Len(plan) >= 2
    /\ idx = Len(plan) + 1
    /\ max_evictions = Some(1)

\* C8 as stated: with dry_run unset, a cap k, a plan of more than k entries
\* and no failing call, execute_plan evicts exactly the first k entries,
\* returns k and prints the cap warning.
C8_CapStopsAtK ==
    /\ pc = "returned"
    /\ ~dry_run
    /\ max_evictions # None
    /\ Len(plan) > max_evictions[1]
    /\ Succeeded = DOMAIN calls
    => /\ CalledNames = PlanNames(max_evictions[1])
       /\ returned = Some(max_evictions[1])
       /\ CapWarning \in {warnings[i] : i \in DOMAIN warnings}

\* C8 as amended: the same for a cap k >= 0; with a cap k < 0 nothing is
\* evicted and 0 is returned.
C8_CapStopsAtNaturalK ==
    /\ pc = "returned"
    /\ ~dry_run
    /\ max_evictions # None
    /\ Len(plan) > max_evictions[1]
    /\ Succeeded = DOMAIN calls
    => IF max_evictions[1] >= 0
       THEN /\ CalledNames = PlanNames(max_evictions[1])
            /\ returned = Some(max_evictions[1])
            /\ CapWarning \in {warnings[i] : i \in DOMAIN warnings}
       ELSE /\ calls = <<>>
            /\ returned = Some(0)

C8_Witness ==
    /\ pc = "returned"
    /\ ~dry_run
    /\ max_evictions = Some(2)
    /\ Len(plan) = 3
    /\ Succeeded = DOMAIN calls
    /\ Len(calls) = 2
    /\ idx = 3

\* C9: with dry_run unset and no cap, the calls made so far are the first
\* entries of the plan, each once and in plan order, whatever calls failed;
\* when execute_plan returns, every entry has been called and the count
\* returned is the number of calls that succeeded.
C9_FailuresDoNotStop ==
    ~dry_run /\ max_evictions = None =>
        /\ Len(calls) <= Len(plan)
        /\ CalledNames = PlanNames(Len(calls))
        /\ pc = "returned" =>
              /\ Len(calls) = Len(plan)
              /\ returned = Some(Cardinality(Succeeded))

C9_Witness ==
    /\ ~dry_run
    /\ max_evictions = None
    /\ pc = "returned"
    /\ Len(plan) = 3
    /\ calls[1].result = "ApiException"
    /\ calls[2].result = "ok"
    /\ calls[3].result = "ApiException"
    /\ returned = Some(1)

====
